---------------------------- MODULE Spec2Model ----------------------------
(***************************************************************************)
(* A model of the NFA regular-expression engine of src/parser/src:         *)
(* regex_parser.py (RegexParser: the recursive-descent compiler that       *)
(* builds a Thompson-style automaton), nfa.py (TransitionLabel, State,     *)
(* NFA) and nfa_runner.py (NFARunner: the subset simulation, MatchResult). *)
(*                                                                         *)
(* Characters are their code points (Python ord), so that ranges of a      *)
(* character class and isdigit are computed the way the code computes      *)
(* them.  A string is a sequence of code points; Python's 0-based index i  *)
(* is element i+1 of the sequence.  A State object is a natural number     *)
(* (its identity); the transitions of all State objects are one set of     *)
(* edges <<source, label, destination>>.                                   *)
(***************************************************************************)
EXTENDS Integers, Sequences, FiniteSets, TLC

VARIABLES
    pattern,        \* RegexParser.pattern: the pattern being compiled
    expr,           \* the syntax tree the pattern was written from (input only)
    pos,            \* RegexParser.pos
    anchor_start,   \* RegexParser.anchor_start / NFARunner.anchor_start
    anchor_end,     \* RegexParser.anchor_end / NFARunner.anchor_end
    nstates,        \* number of State objects allocated so far
    trans,          \* the transitions of all State objects
    nfa,            \* NFARunner.nfa: the compiled fragment
    status,         \* "new", "compiled" or "error"
    error,          \* the ValueError raised by parse(), if any
    op,             \* the last matcher operation called
    subject,        \* the string it was called on
    result,         \* what it returned
    calls,          \* every call made so far, in order, with what it returned
    accessed,       \* the last accessor called on a match result, and its outcome
    work,           \* one run of _epsilon_closure: its stack, its closure, its pushes
    sims,           \* the runs of _match_from_position under way, each with its locals
    cloned          \* the fragment given to _clone_nfa and the copy it returned

vars == <<pattern, expr, pos, anchor_start, anchor_end, nstates, trans, nfa,
          status, error, op, subject, result, calls, accessed, work, sims, cloned>>

\* what compile and the calls of the matcher leave alone
aux == <<accessed, work, sims, cloned>>

-----------------------------------------------------------------------------
(* Characters *)

\* Python None
None == -1

\* ord() of the characters the inputs are written with
Ord(c) ==
    CASE c = "a" -> 97  [] c = "b" -> 98  [] c = "c" -> 99  [] c = "d" -> 100
      [] c = "m" -> 109 [] c = "n" -> 110 [] c = "s" -> 115 [] c = "w" -> 119 [] c = "x" -> 120
      [] c = "z" -> 122 [] c = "A" -> 65
      [] c = "0" -> 48  [] c = "1" -> 49  [] c = "2" -> 50  [] c = "3" -> 51
      [] c = "4" -> 52  [] c = "5" -> 53  [] c = "9" -> 57
      [] c = "^" -> 94  [] c = "$" -> 36  [] c = "|" -> 124 [] c = "(" -> 40
      [] c = ")" -> 41  [] c = "*" -> 42  [] c = "+" -> 43  [] c = "?" -> 63
      [] c = "{" -> 123 [] c = "}" -> 125 [] c = "," -> 44  [] c = "." -> 46
      [] c = "[" -> 91  [] c = "]" -> 93  [] c = "-" -> 45  [] c = "\\" -> 92
      [] c = " " -> 32  [] c = "_" -> 95  [] c = "~" -> 126 [] c = "DEL" -> 127
      [] c = "SOH" -> 1 [] c = "TAB" -> 9 [] c = "e-acute" -> 233

\* a string literal: the sequence of the code points of its characters
Str(cs) == [i \in 1..Len(cs) |-> Ord(cs[i])]

\* str.isdigit on one ASCII character
IsDigit(c) == c \in 48..57

\* int(num_string) on a string of decimal digits
RECURSIVE IntOf(_)
IntOf(digits) ==
    IF digits = <<>> THEN 0
    ELSE 10 * IntOf(SubSeq(digits, 1, Len(digits) - 1)) + (digits[Len(digits)] - 48)

\* every ASCII character, the control characters included
AllAscii == 0..127

\* string.printable: digits, letters, punctuation and whitespace
Printable == (32..126) \cup (9..13)

-----------------------------------------------------------------------------
(* nfa.py: TransitionLabel, State, NFA *)

TransitionLabel(value, is_wildcard) == [value |-> value, is_wildcard |-> is_wildcard]

Epsilon == TransitionLabel(None, FALSE)

DotLabel == TransitionLabel(Ord("."), TRUE)

Literal(c) == TransitionLabel(c, FALSE)

NFA(start, accept) == [start |-> start, accept |-> accept]

NoNFA == NFA(0, 0)

-----------------------------------------------------------------------------
(* regex_parser.py: the cursor *)

NoError == [raised |-> FALSE, kind |-> "none", expected |-> None, got |-> None,
            index |-> None]

\* RegexParser.__init__
NewParser(p) ==
    [pattern |-> p, pos |-> 0, anchor_start |-> FALSE, anchor_end |-> FALSE,
     nstates |-> 0, trans |-> {}, err |-> NoError,
     ch |-> None, nfa |-> NoNFA, num |-> <<>>, min |-> 0, max |-> None,
     chars |-> {}]

Raise(st, kind, expected, got, index) ==
    [st EXCEPT !.err = [raised |-> TRUE, kind |-> kind, expected |-> expected,
                        got |-> got, index |-> index]]

Peek(st) == IF st.pos < Len(st.pattern) THEN st.pattern[st.pos + 1] ELSE None

\* a consume that steps over the offending character before it raises
ConsumeStepping(st, expected) ==
    IF st.pos >= Len(st.pattern)
    THEN Raise(st, "end", expected, None, None)
    ELSE LET char == st.pattern[st.pos + 1] IN
         IF expected # None /\ char # expected
         THEN Raise([st EXCEPT !.pos = @ + 1], "mismatch", expected, char, st.pos)
         ELSE [st EXCEPT !.pos = @ + 1, !.ch = char]

\* _consume(expected): the consumed character is returned in st.ch
Consume(st, expected) ==
    IF st.pos >= Len(st.pattern)
    THEN Raise(st, "end", expected, None, None)
    ELSE LET char == st.pattern[st.pos + 1] IN
         IF expected # None /\ char # expected
         THEN Raise(st, "mismatch", expected, char, st.pos)
         ELSE [st EXCEPT !.pos = @ + 1, !.ch = char]

-----------------------------------------------------------------------------
(* regex_parser.py: fragment construction.  Each operator returns the       *)
(* parser state with the new fragment in st.nfa.  start = State() and       *)
(* end = State() are the objects st.nstates + 1 and st.nstates + 2.         *)

\* start = State(); end = State(); one transition per character of a set
CharsFragment(st, chars) ==
    LET start == st.nstates + 1
        end   == st.nstates + 2
    IN  [st EXCEPT !.nstates = @ + 2,
                   !.trans = @ \cup {<<start, Literal(c), end>> : c \in chars},
                   !.nfa = NFA(start, end)]

\* _builtin_charset
BuiltinCharset(key) ==
    CASE key = Ord("d") -> 48..57
      [] key = Ord("w") -> (97..122) \cup (65..90) \cup (48..57) \cup {95}
      [] key = Ord("s") -> {32, 9, 13, 10, 12, 11}
      [] OTHER -> {key}

\* _digit
Digit(st) == CharsFragment(st, BuiltinCharset(Ord("d")))

\* _word
Word(st) == CharsFragment(st, BuiltinCharset(Ord("w")))

\* _space
Space(st) == CharsFragment(st, BuiltinCharset(Ord("s")))

\* _literal
LiteralFragment(st, char) == CharsFragment(st, {char})

\* _dot
Dot(st) ==
    LET start == st.nstates + 1
        end   == st.nstates + 2
    IN  [st EXCEPT !.nstates = @ + 2,
                   !.trans = @ \cup {<<start, DotLabel, end>>},
                   !.nfa = NFA(start, end)]

\* _concatenate
Concatenate(st, a, b) ==
    [st EXCEPT !.trans = @ \cup {<<a.accept, Epsilon, b.start>>},
               !.nfa = NFA(a.start, b.accept)]

\* _alternate
Alternate(st, a, b) ==
    LET start  == st.nstates + 1
        accept == st.nstates + 2
    IN  [st EXCEPT !.nstates = @ + 2,
                   !.trans = @ \cup {<<start, Epsilon, a.start>>,
                                     <<start, Epsilon, b.start>>,
                                     <<a.accept, Epsilon, accept>>,
                                     <<b.accept, Epsilon, accept>>},
                   !.nfa = NFA(start, accept)]

\* _kleene_star
KleeneStar(st, a) ==
    LET start  == st.nstates + 1
        accept == st.nstates + 2
    IN  [st EXCEPT !.nstates = @ + 2,
                   !.trans = @ \cup {<<start, Epsilon, a.start>>,
                                     <<start, Epsilon, accept>>,
                                     <<a.accept, Epsilon, a.start>>,
                                     <<a.accept, Epsilon, accept>>},
                   !.nfa = NFA(start, accept)]

\* the call self._concatenate(a, star) once the star is built
ConcatenateStar(s1, a) == Concatenate(s1, a, s1.nfa)

\* _plus: the star is built on the very states of a, not on a copy
Plus(st, a) == ConcatenateStar(KleeneStar(st, a), a)

\* _optional
Optional(st, a) ==
    LET start  == st.nstates + 1
        accept == st.nstates + 2
    IN  [st EXCEPT !.nstates = @ + 2,
                   !.trans = @ \cup {<<start, Epsilon, a.start>>,
                                     <<start, Epsilon, accept>>,
                                     <<a.accept, Epsilon, accept>>},
                   !.nfa = NFA(start, accept)]

\* the State objects deepcopy reaches from a set of objects, by any transition
RECURSIVE ReachableFrom(_, _)
ReachableFrom(edges, seen) ==
    LET more == {e[3] : e \in {x \in edges : x[1] \in seen}} \ seen
    IN  IF more = {} THEN seen ELSE ReachableFrom(edges, seen \cup more)

\* deepcopy's memo: the copy of the i-th smallest object of old is the i-th new one
CopyOf(st, old, q) == st.nstates + Cardinality({y \in old : y <= q})

\* a copy of the two ends of the fragment only, their transitions still
\* leading to the objects of the original
CopyStatesShallow(st, a, old) ==
    [st EXCEPT !.nstates = @ + 2,
               !.trans = @ \cup {<<st.nstates + 1, e[2], e[3]>> :
                                    e \in {x \in st.trans : x[1] = a.start}}
                           \cup {<<st.nstates + 2, e[2], e[3]>> :
                                    e \in {x \in st.trans : x[1] = a.accept}},
               !.nfa = NFA(st.nstates + 1, st.nstates + 2)]

\* the copies of the objects old, with their transitions
CopyStates(st, a, old) ==
    [st EXCEPT !.nstates = @ + Cardinality(old),
               !.trans = @ \cup {<<CopyOf(st, old, e[1]), e[2], CopyOf(st, old, e[3])>> :
                                    e \in {x \in st.trans : x[1] \in old}},
               !.nfa = NFA(CopyOf(st, old, a.start), CopyOf(st, old, a.accept))]

\* _clone_nfa: deepcopy(nfa) copies every State reachable from nfa.start and
\* nfa.accept once, with its transitions, into new objects
CloneNfa(st, a) == CopyStates(st, a, ReachableFrom(st.trans, {a.start, a.accept}))

-----------------------------------------------------------------------------
(* regex_parser.py: counted repetition *)

\* while (peek := self._peek()) and peek.isdigit(): num_string += self._consume()
RECURSIVE ReadDigits(_, _)
ReadDigits(st, num_string) ==
    IF Peek(st) # None /\ IsDigit(Peek(st))
    THEN ReadDigits(Consume(st, None), Append(num_string, Consume(st, None).ch))
    ELSE [st EXCEPT !.num = num_string]

\* return (min_value, max_value): the pair is returned in st.min, st.max
ReturnRange(st, min_value, max_value) ==
    IF st.err.raised THEN st
    ELSE [st EXCEPT !.min = min_value, !.max = max_value]

\* max_value = int(num_string) if num_string; self._consume('}')
ParseRepeatMax(st, min_value) ==
    ReturnRange(Consume(st, Ord("}")), min_value,
                IF st.num # <<>> THEN IntOf(st.num) ELSE None)

\* min_value = int(num_string) if num_string else 0, then ',' or '}'
ParseRepeatMin(st) ==
    LET min_value == IF st.num # <<>> THEN IntOf(st.num) ELSE 0 IN
    IF Peek(st) = Ord(",")
    THEN ParseRepeatMax(ReadDigits(Consume(st, Ord(",")), <<>>), min_value)
    ELSE ReturnRange(Consume(st, Ord("}")), min_value, None)   \* exact repeat {n}

\* _parse_repeat_range
ParseRepeatRange(st) ==
    IF Peek(st) = Ord(",")
    THEN ParseRepeatMax(ReadDigits(Consume(st, Ord(",")), <<>>), 0)
    ELSE ParseRepeatMin(ReadDigits(st, <<>>))

\* repeated = self._concatenate(repeated, second), second being s1.nfa;
\* an exception raised while second was built goes on up
ConcatenateTo(repeated, s1) ==
    IF s1.err.raised THEN s1 ELSE Concatenate(s1, repeated, s1.nfa)

\* for _ in range(n): second = clone(repeated); repeated = concat(repeated, second)
\* (repeated is st.nfa)
RECURSIVE RepeatMandatory(_, _)
RepeatMandatory(st, n) ==
    IF n <= 0 THEN st
    ELSE RepeatMandatory(ConcatenateTo(st.nfa, CloneNfa(st, st.nfa)), n - 1)

\* the clone taken as it is, not made optional
MandatoryOf(s1) == s1

\* self._optional(clone)
OptionalOf(s1) == Optional(s1, s1.nfa)

\* for _ in range(n): second = optional(clone(repeated)); repeated = concat(...)
RECURSIVE RepeatOptional(_, _)
RepeatOptional(st, n) ==
    IF n <= 0 THEN st
    ELSE RepeatOptional(ConcatenateTo(st.nfa, OptionalOf(CloneNfa(st, st.nfa))), n - 1)

\* self._kleene_star(clone)
KleeneStarOf(s1) == KleeneStar(s1, s1.nfa)

\* second = star(clone(a)); repeated = concat(repeated, second)
RepeatUnbounded(st, a) == ConcatenateTo(st.nfa, KleeneStarOf(CloneNfa(st, a)))

\* the second half of _repeat, after the mandatory copies
RepeatExtra(st, a) ==
    IF st.max # None
    THEN RepeatOptional(st, st.max - st.min)
    ELSE RepeatUnbounded(st, a)

\* the body of _repeat once the range is parsed: repeated = a, then the loops
RepeatCounts(st, a) ==
    IF st.err.raised THEN st
    ELSE RepeatExtra(RepeatMandatory(st, st.min - 1), a)

\* _repeat (st.nfa is a)
Repeat(st, a) == RepeatCounts(ParseRepeatRange(st), a)

-----------------------------------------------------------------------------
(* regex_parser.py: character classes *)

\* chars.update(self._builtin_charset(escaped)) after the two consumes
ClassEscape(s2, chars) ==
    IF s2.err.raised THEN [s2 EXCEPT !.chars = chars]
    ELSE [s2 EXCEPT !.chars = chars \cup BuiltinCharset(s2.ch)]

\* end_ch = self._consume(); chars.update(range(ord(start_ch), ord(end_ch) + 1))
ClassRange(s3, chars, start_ch) ==
    IF s3.err.raised THEN [s3 EXCEPT !.chars = chars]
    ELSE [s3 EXCEPT !.chars = chars \cup (start_ch .. s3.ch)]

\* chars.add(self._consume())
ClassChar(s1, chars) == [s1 EXCEPT !.chars = chars \cup {s1.ch}]

\* one turn of the while loop of _character_class
ClassItem(st, chars) ==
    IF Peek(st) = Ord("\\")
    THEN ClassEscape(Consume(Consume(st, Ord("\\")), None), chars)
    ELSE IF st.pos + 2 < Len(st.pattern) /\ st.pattern[st.pos + 2] = Ord("-")
    THEN ClassRange(Consume(Consume(Consume(st, None), Ord("-")), None), chars, Peek(st))
    ELSE ClassChar(Consume(st, None), chars)

\* the while loop of _character_class; the set is st.chars
RECURSIVE ClassItems(_)
ClassItems(st) ==
    IF ~st.err.raised /\ Peek(st) # None /\ Peek(st) # Ord("]")
    THEN ClassItems(ClassItem(st, st.chars))
    ELSE st

\* the loop for char in chars: start.add_transition(TransitionLabel(char), end)
ClassFragment(s3, chars) ==
    IF s3.err.raised THEN s3 ELSE CharsFragment(s3, chars)

\* self._consume(']'), the complement if negate
ClassClose(s2, negate) ==
    IF s2.err.raised THEN s2
    ELSE ClassFragment(Consume(s2, Ord("]")),
                       IF negate THEN Printable \ s2.chars ELSE s2.chars)

\* _character_class
CharacterClass(st) ==
    IF Peek(st) = Ord("^")
    THEN ClassClose(ClassItems([Consume(st, Ord("^")) EXCEPT !.chars = {}]), TRUE)
    ELSE ClassClose(ClassItems([st EXCEPT !.chars = {}]), FALSE)

-----------------------------------------------------------------------------
(* regex_parser.py: the recursive descent *)

RECURSIVE Expression(_), ExpressionLoop(_), Term(_), TermLoop(_), Factor(_),
          FactorLoop(_), Base(_)

\* self._consume(')') after the expression of a group
CloseGroup(s2) == IF s2.err.raised THEN s2 ELSE Consume(s2, Ord(")"))

\* match escaped: the shorthand classes, or the escaped character itself
Escaped(s2) ==
    IF s2.err.raised THEN s2
    ELSE CASE s2.ch = Ord("d") -> Digit(s2)
           [] s2.ch = Ord("w") -> Word(s2)
           [] s2.ch = Ord("s") -> Space(s2)
           [] OTHER -> LiteralFragment(s2, s2.ch)

\* return self._literal(self._consume())
LiteralOf(s1) == IF s1.err.raised THEN s1 ELSE LiteralFragment(s1, s1.ch)

\* _base
Base(st) ==
    CASE Peek(st) = Ord("(")  -> CloseGroup(Expression(Consume(st, Ord("("))))
      [] Peek(st) = Ord("\\") -> Escaped(Consume(Consume(st, Ord("\\")), None))
      [] Peek(st) = Ord(".")  -> Dot(Consume(st, Ord(".")))
      [] Peek(st) = Ord("[")  -> CharacterClass(Consume(st, Ord("[")))
      [] OTHER                -> LiteralOf(Consume(st, None))

\* match op, op being the quantifier just consumed (s1.ch)
Quantify(s1) ==
    CASE s1.ch = Ord("*") -> KleeneStar(s1, s1.nfa)
      [] s1.ch = Ord("+") -> Plus(s1, s1.nfa)
      [] s1.ch = Ord("?") -> Optional(s1, s1.nfa)
      [] s1.ch = Ord("{") -> Repeat(s1, s1.nfa)

\* the while loop of _factor: st.nfa is the fragment built so far
FactorLoop(st) ==
    IF /\ ~st.err.raised
       /\ Peek(st) # None
       /\ Peek(st) \in {Ord("*"), Ord("+"), Ord("?"), Ord("{")}
    THEN FactorLoop(Quantify(Consume(st, None)))
    ELSE st

\* _factor
Factor(st) == FactorLoop(Base(st))

\* the while loop of _term: st.nfa is the fragment built so far
TermLoop(st) ==
    IF /\ ~st.err.raised
       /\ Peek(st) # None
       /\ Peek(st) \notin {Ord(")"), Ord("|")}
       /\ Peek(st) # Ord("$")
    THEN TermLoop(ConcatenateTo(st.nfa, Factor(st)))
    ELSE st

\* _term
Term(st) == TermLoop(Factor(st))

\* nfa = self._alternate(nfa, nfa2), nfa2 being s2.nfa
AlternateTo(a, s2) == IF s2.err.raised THEN s2 ELSE Alternate(s2, a, s2.nfa)

\* the while loop of _expression: st.nfa is the fragment built so far
ExpressionLoop(st) ==
    IF ~st.err.raised /\ Peek(st) = Ord("|")
    THEN ExpressionLoop(AlternateTo(st.nfa, Term(Consume(st, Ord("|")))))
    ELSE st

\* _expression
Expression(st) == ExpressionLoop(Term(st))

\* the end of parse: the end anchor
ParseEnd(s2) ==
    IF s2.err.raised THEN s2
    ELSE IF Peek(s2) = Ord("$")
    THEN Consume([s2 EXCEPT !.anchor_end = TRUE], Ord("$"))
    ELSE s2

\* parse
ParsePattern(p) ==
    IF Peek(NewParser(p)) = Ord("^")
    THEN ParseEnd(Expression(Consume([NewParser(p) EXCEPT !.anchor_start = TRUE],
                                     Ord("^"))))
    ELSE ParseEnd(Expression(NewParser(p)))

-----------------------------------------------------------------------------
(* nfa_runner.py: NFARunner.  A runner is a record [nfa, anchor_start,      *)
(* anchor_end, trans]: its three slots and the transitions of the graph.    *)

NFARunner(n, as, ae, edges) ==
    [nfa |-> n, anchor_start |-> as, anchor_end |-> ae, trans |-> edges]

\* state.transitions.get(label, [])
TargetsAnyLabel(edges, state, label) ==
    {e[3] : e \in {x \in edges : x[1] = state}}

\* state.transitions.get(label, [])
Targets(edges, state, label) ==
    {e[3] : e \in {x \in edges : x[1] = state /\ x[2] = label}}

\* list(states): the elements of a set in some order
RECURSIVE ListOf(_)
ListOf(S) ==
    IF S = {} THEN <<>>
    ELSE LET x == CHOOSE y \in S : \A z \in S : y <= z
         IN  <<x>> \o ListOf(S \ {x})

\* a for loop that pushes every target, seen before or not
RECURSIVE ClosureVisitAll(_, _)
ClosureVisitAll(next_states, v) ==
    IF next_states = <<>> THEN v
    ELSE ClosureVisitAll(Tail(next_states),
                         [stack   |-> Append(v.stack, Head(next_states)),
                          closure |-> v.closure \cup {Head(next_states)}])

\* the for loop of _epsilon_closure over the epsilon targets of one state;
\* v is the pair of stack and closure
RECURSIVE ClosureVisit(_, _)
ClosureVisit(next_states, v) ==
    IF next_states = <<>> THEN v
    ELSE IF Head(next_states) \notin v.closure
    THEN ClosureVisit(Tail(next_states),
                      [stack   |-> Append(v.stack, Head(next_states)),
                       closure |-> v.closure \cup {Head(next_states)}])
    ELSE ClosureVisit(Tail(next_states), v)

\* the while loop of _epsilon_closure: state = stack.pop(), then the for loop
RECURSIVE ClosureLoop(_, _)
ClosureLoop(edges, v) ==
    IF v.stack = <<>> THEN v.closure
    ELSE ClosureLoop(edges,
            ClosureVisit(ListOf(Targets(edges, v.stack[Len(v.stack)], Epsilon)),
                         [v EXCEPT !.stack = SubSeq(v.stack, 1, Len(v.stack) - 1)]))

\* no run of _epsilon_closure is under way
NoWork ==
    [phase |-> "idle", round |-> 0, given |-> {}, seed |-> {},
     stack |-> <<>>, closure |-> {}, pushed |-> <<>>]

\* _epsilon_closure
EpsilonClosure(edges, states) ==
    ClosureLoop(edges, [stack |-> ListOf(states), closure |-> states])

\* _get_next_states
GetNextStates(edges, states, char) ==
    UNION {EpsilonClosure(edges, {target}) :
              target \in UNION {Targets(edges, state, DotLabel)
                                \cup Targets(edges, state, Literal(char)) :
                                    state \in states}}

\* the for loop of _match_from_position, from index i on; l holds the locals
\* current_states, idx and last_accept_idx
RECURSIVE MatchLoop(_, _, _, _)
\* a loop body that keeps the first accepted end instead of the last
MatchStepFirstAccept(r, s, i, l, next_states) ==
    IF next_states = {}
    THEN [l EXCEPT !.current_states = next_states]
    ELSE MatchLoop(r, s, i + 1,
                   [current_states  |-> next_states,
                    idx             |-> i + 1,
                    last_accept_idx |-> IF l.last_accept_idx # -1
                                        THEN l.last_accept_idx
                                        ELSE IF r.nfa.accept \in next_states
                                             THEN i + 1 ELSE -1])

\* the body of the loop once the next states are computed
MatchStep(r, s, i, l, next_states) ==
    IF next_states = {}
    THEN [l EXCEPT !.current_states = next_states]
    ELSE MatchLoop(r, s, i + 1,
                   [current_states  |-> next_states,
                    idx             |-> i + 1,
                    last_accept_idx |-> IF r.nfa.accept \in next_states
                                        THEN i + 1 ELSE l.last_accept_idx])

MatchLoop(r, s, i, l) ==
    IF i >= Len(s) THEN l
    ELSE MatchStep(r, s, i, l, GetNextStates(r.trans, l.current_states, s[i + 1]))

\* a matcher that forgets the end anchor
MatchVerdictUnanchored(r, s, l) ==
    IF l.last_accept_idx # -1
    THEN <<TRUE, l.last_accept_idx>>
    ELSE <<FALSE, -1>>

\* a verdict that reports a failure as a match ending at -1
MatchVerdictNoFlag(r, s, l) ==
    IF r.anchor_end
    THEN IF r.nfa.accept \in l.current_states /\ l.idx = Len(s)
         THEN <<TRUE, l.idx>>
         ELSE <<TRUE, -1>>
    ELSE <<TRUE, l.last_accept_idx>>

\* an end anchor that asks for the end of the string only, whatever is live
MatchVerdictEndOnly(r, s, l) ==
    IF r.anchor_end
    THEN IF l.idx = Len(s)
         THEN <<TRUE, l.idx>>
         ELSE <<FALSE, -1>>
    ELSE IF l.last_accept_idx # -1
         THEN <<TRUE, l.last_accept_idx>>
         ELSE <<FALSE, -1>>

\* the end of _match_from_position: the pair (matched, end_index)
MatchVerdict(r, s, l) ==
    IF r.anchor_end
    THEN IF r.nfa.accept \in l.current_states /\ l.idx = Len(s)
         THEN <<TRUE, l.idx>>
         ELSE <<FALSE, -1>>
    ELSE IF l.last_accept_idx # -1
         THEN <<TRUE, l.last_accept_idx>>
         ELSE <<FALSE, -1>>

\* _match_from_position
MatchFromPosition(r, s, start_idx) ==
    MatchVerdict(r, s,
        MatchLoop(r, s, start_idx,
                  [current_states  |-> EpsilonClosure(r.trans, {r.nfa.start}),
                   idx             |-> start_idx,
                   last_accept_idx |-> -1]))

\* a call of _match_from_position that was not made
NoSim ==
    [phase |-> "idle", s |-> <<>>, start_idx |-> 0, i |-> 0,
     l |-> [current_states |-> {}, idx |-> 0, last_accept_idx |-> -1],
     out |-> <<FALSE, -1>>, amid |-> FALSE]

\* no fragment was given to _clone_nfa
NoClone == [done |-> FALSE, nfa |-> NoNFA, copy |-> NoNFA, nstates |-> 0, trans |-> {}]

\* s[i:j]
Slice(s, i, j) == SubSeq(s, i + 1, j)

\* a result that holds its whole text as a first captured group
MatchResultWithGroup(fullmatch, start, end) ==
    [fullmatch |-> fullmatch, start |-> start, end |-> end,
     groups |-> <<fullmatch>>, group_spans |-> << <<start, end>> >>]

\* MatchResult(fullmatch, start, end): groups and group_spans keep their default
MatchResult(fullmatch, start, end) ==
    [fullmatch |-> fullmatch, start |-> start, end |-> end,
     groups |-> <<>>, group_spans |-> <<>>]

\* the absent result of match and search (Python None)
Absent == [fullmatch |-> <<None>>, start |-> None, end |-> None,
           groups |-> <<>>, group_spans |-> <<>>]

\* the outcome of a call: the value returned, or the exception raised
Returned(v) == [raised |-> FALSE, kind |-> "none", value |-> v]

IndexError == [raised |-> TRUE, kind |-> "IndexError", value |-> None]

\* list[i] of Python: i counts from 0, a negative i counts from the end
ListIndex(list, i) ==
    IF 0 <= i /\ i < Len(list) THEN Returned(list[i + 1])
    ELSE IF i < 0 /\ 0 - i <= Len(list) THEN Returned(list[Len(list) + i + 1])
    ELSE IndexError

\* x[k] of an outcome x, the exception going on up
ItemOf(x, k) == IF x.raised THEN x ELSE Returned(x.value[k + 1])

\* MatchResult.group
MatchResultGroup(m, n) ==
    IF n = 0 THEN Returned(m.fullmatch) ELSE ListIndex(m.groups, n - 1)

\* MatchResult.start
MatchResultStart(m, n) ==
    IF n = 0 THEN Returned(m.start) ELSE ItemOf(ListIndex(m.group_spans, n - 1), 0)

\* MatchResult.end
MatchResultEnd(m, n) ==
    IF n = 0 THEN Returned(m.end) ELSE ItemOf(ListIndex(m.group_spans, n - 1), 1)

\* the tuple (self.start(n), self.end(n)) once both are evaluated
PairOf(x, y) ==
    IF x.raised THEN x ELSE IF y.raised THEN y ELSE Returned(<<x.value, y.value>>)

\* MatchResult.spans
MatchResultSpans(m, n) == PairOf(MatchResultStart(m, n), MatchResultEnd(m, n))

\* no accessor was called yet
NoAccess == [accessor |-> "none", n |-> 0, of |-> <<>>, out |-> Returned(None)]

\* MatchResult.__bool__; bool(None) is False
Bool(m) == m # Absent /\ m.fullmatch # <<>>

\* if matched: return MatchResult(s[start_idx:end_idx], start_idx, end_idx)
ResultAt(s, start_idx, m) ==
    IF m[1] THEN MatchResult(Slice(s, start_idx, m[2]), start_idx, m[2]) ELSE Absent

\* NFARunner.match
RunnerMatch(r, s) == ResultAt(s, 0, MatchFromPosition(r, s, 0))

\* the for loop of search over start_positions, from start_idx to last
RECURSIVE SearchLoop(_, _, _, _)
\* the body of the loop once _match_from_position has returned m
SearchStep(r, s, start_idx, last, m) ==
    IF m[1] THEN ResultAt(s, start_idx, m)
    ELSE SearchLoop(r, s, start_idx + 1, last)

SearchLoop(r, s, start_idx, last) ==
    IF start_idx > last THEN Absent
    ELSE SearchStep(r, s, start_idx, last, MatchFromPosition(r, s, start_idx))

\* NFARunner.search: start_positions is [0] or range(len(s) + 1)
RunnerSearch(r, s) ==
    SearchLoop(r, s, 0, IF r.anchor_start THEN 0 ELSE Len(s))

\* NFARunner.run
RunnerRun(r, s) == Bool(RunnerSearch(r, s))

\* the while loop of findall
RECURSIVE FindallLoop(_, _, _, _)
\* a loop body that steps one character on after a match, not to its end
FindallStepByOne(r, s, i, matches, m) ==
    IF m[1] /\ m[2] > i
    THEN FindallLoop(r, s, i + 1,
                     Append(matches, MatchResult(Slice(s, i, m[2]), i, m[2])))
    ELSE FindallLoop(r, s, i + 1, matches)

\* the body of the loop once _match_from_position has returned m
FindallStep(r, s, i, matches, m) ==
    IF m[1] /\ m[2] > i
    THEN FindallLoop(r, s, IF m[2] > i THEN m[2] ELSE i + 1,
                     Append(matches, MatchResult(Slice(s, i, m[2]), i, m[2])))
    ELSE FindallLoop(r, s, i + 1, matches)

FindallLoop(r, s, i, matches) ==
    IF i > Len(s) THEN matches
    ELSE FindallStep(r, s, i, matches, MatchFromPosition(r, s, i))

\* NFARunner.findall
RunnerFindall(r, s) == FindallLoop(r, s, 0, <<>>)

-----------------------------------------------------------------------------
(* The pattern grammar and the language it denotes: the meaning of a        *)
(* pattern, against which the compiled matcher is judged.                    *)

Lit(c) == [op |-> "lit", c |-> c]

AnyChar == [op |-> "dot"]

Cat(l, r) == [op |-> "cat", l |-> l, r |-> r]

Alt(l, r) == [op |-> "alt", l |-> l, r |-> r]

Star(e) == [op |-> "star", e |-> e]

PlusOf(e) == [op |-> "plus", e |-> e]

Opt(e) == [op |-> "opt", e |-> e]

\* e{min}, e{min,}, e{,max}, e{min,max}: form is "n", "n,", ",m" or "n,m";
\* max = None when the form gives none, min = 0 when the form gives none
Rep(e, form, min, max) == [op |-> "rep", e |-> e, form |-> form, min |-> min, max |-> max]

\* [items] or [^items]: an item is <<"ch", c>>, <<"range", lo, hi>> or <<"esc", c>>
Class(negate, items) == [op |-> "class", negate |-> negate, items |-> items]

\* a whole pattern: '^'? expression '$'?
Pat(as, e, ae) == [op |-> "pattern", as |-> as, e |-> e, ae |-> ae]

\* a pattern that was not written from a syntax tree
NoExpr == [op |-> "none"]

\* the decimal digits of a number
RECURSIVE Digits(_)
Digits(n) == IF n < 10 THEN <<48 + n>> ELSE Digits(n \div 10) \o <<48 + (n % 10)>>

RECURSIVE ShowItems(_)
ShowItems(items) ==
    IF items = <<>> THEN <<>>
    ELSE LET it == Head(items) IN
         (CASE it[1] = "ch"    -> <<it[2]>>
            [] it[1] = "range" -> <<it[2], Ord("-"), it[3]>>
            [] it[1] = "esc"   -> <<Ord("\\"), it[2]>>) \o ShowItems(Tail(items))

\* the text of a syntax tree, with a group wherever precedence needs one
RECURSIVE Show(_)
Group(e, ops) == IF e.op \in ops THEN Str(<<"(">>) \o Show(e) \o Str(<<")">>) ELSE Show(e)
Show(e) ==
    CASE e.op = "lit"   -> <<e.c>>
      [] e.op = "dot"   -> Str(<<".">>)
      [] e.op = "cat"   -> Group(e.l, {"alt"}) \o Group(e.r, {"alt", "cat"})
      [] e.op = "alt"   -> Show(e.l) \o Str(<<"|">>) \o Group(e.r, {"alt"})
      [] e.op = "star"  -> Group(e.e, {"alt", "cat"}) \o Str(<<"*">>)
      [] e.op = "plus"  -> Group(e.e, {"alt", "cat"}) \o Str(<<"+">>)
      [] e.op = "opt"   -> Group(e.e, {"alt", "cat"}) \o Str(<<"?">>)
      [] e.op = "rep"   ->
            Group(e.e, {"alt", "cat"}) \o Str(<<"{">>)
            \o (IF e.form \in {"n", "n,", "n,m"} THEN Digits(e.min) ELSE <<>>)
            \o (IF e.form # "n" THEN Str(<<",">>) ELSE <<>>)
            \o (IF e.form \in {",m", "n,m"} THEN Digits(e.max) ELSE <<>>)
            \o Str(<<"}">>)
      [] e.op = "class" ->
            Str(<<"[">>) \o (IF e.negate THEN Str(<<"^">>) ELSE <<>>)
            \o ShowItems(e.items) \o Str(<<"]">>)
      [] e.op = "pattern" ->
            (IF e.as THEN Str(<<"^">>) ELSE <<>>) \o Show(e.e)
            \o (IF e.ae THEN Str(<<"$">>) ELSE <<>>)

\* the characters a class lists
RECURSIVE Listed(_)
Listed(items) ==
    IF items = <<>> THEN {}
    ELSE LET it == Head(items) IN
         (CASE it[1] = "ch"    -> {it[2]}
            [] it[1] = "range" -> it[2] .. it[3]
            [] it[1] = "esc"   ->
                  (CASE it[2] = Ord("d") -> 48..57
                     [] it[2] = Ord("w") -> (48..57) \cup (65..90) \cup {95} \cup (97..122)
                     [] it[2] = Ord("s") -> {9, 10, 11, 12, 13, 32}
                     [] OTHER -> {it[2]})) \cup Listed(Tail(items))

\* s is in the language of e
RECURSIVE InLang(_, _)
InLang(e, s) ==
    LET n         == Len(s)
        pre(k)    == SubSeq(s, 1, k)
        post(k)   == SubSeq(s, k + 1, n)
        times(lo, hi) == \* between lo and hi occurrences of e.e; hi = None: any number
            Rep(e.e, "n,m", lo, hi)
    IN
    CASE e.op = "lit"   -> s = <<e.c>>
      [] e.op = "dot"   -> n = 1
      [] e.op = "cat"   -> \E k \in 0..n : InLang(e.l, pre(k)) /\ InLang(e.r, post(k))
      [] e.op = "alt"   -> InLang(e.l, s) \/ InLang(e.r, s)
      [] e.op = "opt"   -> n = 0 \/ InLang(e.e, s)
      [] e.op = "star"  -> n = 0 \/ \E k \in 1..n : InLang(e.e, pre(k)) /\ InLang(e, post(k))
      [] e.op = "plus"  -> \E k \in 0..n : InLang(e.e, pre(k)) /\ InLang(Star(e.e), post(k))
      [] e.op = "rep"   ->
            IF e.min > 0
            THEN \E k \in 0..n : /\ InLang(e.e, pre(k))
                                 /\ InLang(times(e.min - 1,
                                                 IF e.max = None THEN None ELSE e.max - 1),
                                           post(k))
            ELSE IF e.max = None THEN InLang(Star(e.e), s)
            ELSE IF e.max <= 0 THEN n = 0
            ELSE n = 0 \/ \E k \in 1..n : /\ InLang(e.e, pre(k))
                                          /\ InLang(times(0, e.max - 1), post(k))
      [] e.op = "class" ->
            /\ n = 1
            /\ IF e.negate THEN s[1] \in Printable \ Listed(e.items)
                           ELSE s[1] \in Listed(e.items)

-----------------------------------------------------------------------------
(* Inputs *)

\* the longest generated subject string
MaxLen == 3

\* the most nodes of a generated syntax tree
MaxNodes == 3

\* the largest count of a generated counted quantifier
MaxCount == 3

\* the number of calls made on one matcher
MaxCalls == 3

\* the two simulations under way at the same time
Simulators == {1, 2}

\* the largest index a simulation starts from
MaxStart == 1

\* the largest set of states given to _epsilon_closure
MaxSeed == 2

\* the pushes after which a run of _epsilon_closure is cut off
MaxPushes == 20

\* the largest group number given to an accessor
MaxGroup == 2

\* the group numbers given to the accessors
GroupNumbers == (0 - MaxGroup)..MaxGroup

\* all strings over an alphabet of at most n characters
RECURSIVE StringsUpTo(_, _)
StringsUpTo(alphabet, n) ==
    IF n = 0 THEN {<<>>}
    ELSE LET shorter == StringsUpTo(alphabet, n - 1)
         IN  shorter \cup {Append(s, c) : s \in shorter, c \in alphabet}

\* the syntax trees of exactly n nodes over the atoms a, b and .
RECURSIVE ExprsOfSize(_)
ExprsOfSize(n) ==
    IF n = 1 THEN {Lit(Ord("a")), Lit(Ord("b")), AnyChar}
    ELSE LET unary  == UNION {{Star(e), PlusOf(e), Opt(e)} : e \in ExprsOfSize(n - 1)}
             binary == UNION {UNION {{Cat(l, r), Alt(l, r)} :
                                        l \in ExprsOfSize(k), r \in ExprsOfSize(n - 1 - k)} :
                                 k \in 1..(n - 2)}
         IN  unary \cup binary

Exprs == UNION {ExprsOfSize(n) : n \in 1..MaxNodes}

\* a word: the concatenation of its letters
RECURSIVE WordOf(_)
WordOf(cs) ==
    IF Len(cs) = 1 THEN Lit(Ord(cs[1]))
    ELSE Cat(WordOf(SubSeq(cs, 1, Len(cs) - 1)), Lit(Ord(cs[Len(cs)])))

A == Lit(Ord("a"))

\* the patterns of the documented examples and of the tests
Examples ==
    { Pat(FALSE, Star(A), FALSE),                                    \* a*
      Pat(FALSE, A, FALSE),                                          \* a
      Pat(TRUE, WordOf(<<"a", "b", "c">>), TRUE),                    \* ^abc$
      Pat(FALSE, WordOf(<<"a", "b", "c">>), FALSE),                  \* abc
      Pat(FALSE, Cat(Cat(A, Star(Lit(Ord("b")))), Lit(Ord("c"))), FALSE),  \* ab*c
      Pat(FALSE, Cat(A, Opt(Lit(Ord("b")))), FALSE),                 \* ab?
      Pat(FALSE, Alt(A, Lit(Ord("b"))), FALSE),                      \* a|b
      Pat(FALSE, Cat(Star(WordOf(<<"a", "b">>)), Lit(Ord("c"))), FALSE),   \* (ab)*c
      Pat(TRUE, Cat(Cat(Star(Alt(A, Lit(Ord("b")))), PlusOf(Lit(Ord("c")))),
                    Opt(Lit(Ord("d")))), TRUE),                      \* ^(a|b)*c+d?$
      Pat(FALSE, Rep(A, "n,m", 2, 4), FALSE),                        \* a{2,4}
      Pat(TRUE, Rep(A, "n,m", 2, 4), TRUE),                          \* ^a{2,4}$
      Pat(FALSE, Rep(A, "n,", 3, None), FALSE),                      \* a{3,}
      Pat(TRUE, Cat(Cat(Lit(Ord("b")), Rep(A, ",m", 0, 2)), Lit(Ord("c"))), TRUE),   \* ^ba{,2}c$
      Pat(TRUE, Cat(Cat(Lit(Ord("b")), Rep(A, "n,", 0, None)), Lit(Ord("c"))), TRUE),\* ^ba{0,}c$
      Pat(FALSE, Class(TRUE, << <<"range", Ord("a"), Ord("z")>> >>), FALSE) }   \* [^a-z]

\* the expressions of the documented examples: abc, ab*c, (ab)*c, (a|b)*c+d?, ab?
ExprExamples ==
    { WordOf(<<"a", "b", "c">>),
      Cat(Cat(A, Star(Lit(Ord("b")))), Lit(Ord("c"))),
      Cat(Star(WordOf(<<"a", "b">>)), Lit(Ord("c"))),
      Cat(Cat(Star(Alt(A, Lit(Ord("b")))), PlusOf(Lit(Ord("c")))), Opt(Lit(Ord("d")))),
      Cat(A, Opt(Lit(Ord("b")))),
      Cat(Cat(A, PlusOf(Lit(Ord("b")))), Opt(Lit(Ord("c")))) }

\* ^a{...}$ and a{...} in every form of the counted quantifier
Repeats ==
    LET counts == 0..MaxCount
        reps   == {Rep(A, "n", n, n) : n \in counts}
                  \cup {Rep(A, "n,", n, None) : n \in counts}
                  \cup {Rep(A, ",m", 0, m) : m \in counts}
                  \cup {Rep(A, "n,m", nm[1], nm[2]) :
                           nm \in {x \in counts \X counts : x[1] <= x[2]}}
    IN  {Pat(anchored, r, anchored) : anchored \in BOOLEAN, r \in reps}

\* the items of the generated character classes
ClassItems1 ==
    { <<"ch", Ord("a")>>, <<"ch", Ord("A")>>, <<"ch", Ord("5")>>,
      <<"range", Ord("a"), Ord("z")>>, <<"range", Ord("a"), Ord("c")>>,
      <<"range", Ord("0"), Ord("9")>>, <<"range", Ord("z"), Ord("a")>>,
      <<"esc", Ord("d")>>, <<"esc", Ord("w")>>, <<"esc", Ord("s")>>, <<"esc", Ord("]")>> }

\* [items] and [^items] of one or two items
Classes ==
    {Pat(FALSE, Class(negate, items), FALSE) :
        negate \in BOOLEAN,
        items \in {<<i>> : i \in ClassItems1} \cup {<<i, j>> : i, j \in ClassItems1}}

\* patterns given as text: the empty pattern, text left after the expression,
\* missing closing delimiters, a pattern ending where a character is
\* required, and quantifiers with nothing before them
RawPatterns ==
    { <<>>,
      Str(<<"a", ")">>), Str(<<"a", ")", "b">>), Str(<<"a", "$", "b">>),
      Str(<<"(", "a", ")", ")">>), Str(<<"a", "$", "$">>),
      Str(<<"(", "a">>), Str(<<"(", "a", "|", "b">>), Str(<<"(">>),
      Str(<<"[", "a">>), Str(<<"[", "^", "a", "-", "z">>), Str(<<"[">>),
      Str(<<"a", "{", "2">>), Str(<<"a", "{", "2", ",">>), Str(<<"a", "{", "x", "}">>),
      Str(<<"a", "{", "2", ",", "x", "}">>), Str(<<"a", "{">>),
      Str(<<"a", "\\">>), Str(<<"\\">>), Str(<<"a", "|">>), Str(<<"(", "a", "|">>),
      Str(<<"*", "a">>), Str(<<"a", "|", "+">>), Str(<<"(", "*", "a", ")">>),
      Str(<<"?">>), Str(<<"+", "a">>), Str(<<"{", "2", "}">>), Str(<<"(", "?", ")">>),
      Str(<<"a", "|", "{", "2", "}">>) }

\* the subjects of repeated calls
CallSubjects ==
    { <<>>, Str(<<"a", "b", "c">>), Str(<<"a", "b", "b", "b", "c">>),
      Str(<<"b", "a", "a", "a">>), Str(<<"b", "c">>) }

\* the subject strings of the documented examples and of the tests
ExampleSubjects ==
    { Str(<<"a", "b", "c">>), Str(<<"a", "b", "c", "c">>), Str(<<"a", "a", "b", "c">>),
      Str(<<"a", "b", "c", "a", "b", "c">>), Str(<<"a", "b", "c", "d">>),
      Str(<<"a", "b", "b", "b", "c">>), Str(<<"a", "b", "b", "d", "c">>),
      Str(<<"a", "a", "a", "a">>), Str(<<"a", "a", "a", "a", "a">>),
      Str(<<"a", "a", "a", "a", "a", "a">>),
      Str(<<"a", "a", "a", "a", "a", "a", "a", "a">>),
      Str(<<"b", "c">>), Str(<<"b", "a", "c">>), Str(<<"b", "a", "a", "a", "c">>),
      Str(<<"c", "c">>), Str(<<"c", "c", "d">>), Str(<<"a", "b", "c", "c", "x">>),
      Str(<<"a", "b", "a", "b", "c", "a", "b">>),
      Str(<<"b", "a", "n", "a", "n", "a">>),
      Str(<<"A">>), Str(<<"m">>), Str(<<"z">>), Str(<<"5">>), Str(<<"_">>), Str(<<" ">>),
      Str(<<"]">>), Str(<<"~">>), Str(<<"TAB">>), Str(<<"SOH">>), Str(<<"DEL">>),
      Str(<<"e-acute">>), Str(<<"A", "m">>) }

Subjects == StringsUpTo({Ord("a"), Ord("b")}, MaxLen) \cup ExampleSubjects

-----------------------------------------------------------------------------
(* The state machine: compile(pattern), then a call of the matcher *)

InitWith(p, e) ==
    /\ pattern = p
    /\ expr = e
    /\ pos = 0
    /\ anchor_start = FALSE
    /\ anchor_end = FALSE
    /\ nstates = 0
    /\ trans = {}
    /\ nfa = NoNFA
    /\ status = "new"
    /\ error = NoError
    /\ op = "none"
    /\ subject = <<>>
    /\ result = Absent
    /\ calls = <<>>
    /\ accessed = NoAccess
    /\ work = NoWork
    /\ sims = [k \in Simulators |-> NoSim]
    /\ cloned = NoClone

\* the documented examples, the counted quantifiers, the character classes
Init ==
    \/ \E e \in Examples \cup Repeats \cup Classes : InitWith(Show(e), e)
    \/ \E p \in RawPatterns : InitWith(p, NoExpr)

\* every small expression E and the expressions of the examples, with and
\* without each anchor
InitExpr ==
    \E e \in Exprs \cup ExprExamples, as \in BOOLEAN, ae \in BOOLEAN :
        InitWith(Show(Pat(as, e, ae)), Pat(as, e, ae))

\* what compile leaves: the parser's fields, and the runner or the exception
Compiled(st) ==
    /\ pos' = st.pos
    /\ anchor_start' = st.anchor_start
    /\ anchor_end' = st.anchor_end
    /\ nstates' = st.nstates
    /\ trans' = st.trans
    /\ error' = st.err
    /\ status' = IF st.err.raised THEN "error" ELSE "compiled"
    /\ nfa' = IF st.err.raised THEN NoNFA ELSE st.nfa

\* compile(pattern): RegexParser(pattern).parse(), then NFARunner(nfa, anchors)
Compile ==
    /\ status = "new"
    /\ Compiled(ParsePattern(pattern))
    /\ UNCHANGED <<pattern, expr, op, subject, result, calls>>
    /\ UNCHANGED aux

\* a matcher that its first call leaves anchored at the start
RunnerAnchoredByCall == NFARunner(nfa, anchor_start \/ calls # <<>>, anchor_end, trans)

\* the compiled matcher
Runner == NFARunner(nfa, anchor_start, anchor_end, trans)

\* one call on the compiled matcher: nothing of the matcher is assigned
Call(name, s, value) ==
    /\ status = "compiled"
    /\ op = "none"
    /\ op' = name
    /\ subject' = s
    /\ result' = value
    /\ calls' = Append(calls, [name |-> name, s |-> s, value |-> value])
    /\ UNCHANGED <<pattern, expr, pos, anchor_start, anchor_end, nstates, trans, nfa,
                   status, error>>
    /\ UNCHANGED aux

Match(s) == Call("match", s, RunnerMatch(Runner, s))

Search(s) == Call("search", s, RunnerSearch(Runner, s))

Findall(s) == Call("findall", s, RunnerFindall(Runner, s))

Run(s) == Call("run", s, RunnerRun(Runner, s))

Next ==
    \/ Compile
    \/ \E s \in Subjects : Match(s)
    \/ \E s \in Subjects : Search(s)
    \/ \E s \in Subjects : Findall(s)
    \/ \E s \in Subjects : Run(s)

Spec == Init /\ [][Next]_vars

SpecExpr == InitExpr /\ [][Next]_vars

\* Repeated calls on one matcher: up to MaxCalls calls of match and search,
\* in any order, on the subjects of CallSubjects
InitCalls == \E e \in Examples : InitWith(Show(e), e)

\* a further call on the compiled matcher, whatever was called before
CallAgain(name, s, value) ==
    /\ status = "compiled"
    /\ Len(calls) < MaxCalls
    /\ op' = name
    /\ subject' = s
    /\ result' = value
    /\ calls' = Append(calls, [name |-> name, s |-> s, value |-> value])
    /\ UNCHANGED <<pattern, expr, pos, anchor_start, anchor_end, nstates, trans, nfa,
                   status, error>>
    /\ UNCHANGED aux

MatchAgain(s) == CallAgain("match", s, RunnerMatch(Runner, s))

SearchAgain(s) == CallAgain("search", s, RunnerSearch(Runner, s))

NextCalls ==
    \/ Compile
    \/ \E s \in CallSubjects : MatchAgain(s)
    \/ \E s \in CallSubjects : SearchAgain(s)

SpecCalls == InitCalls /\ [][NextCalls]_vars

\* The accessors of the results: after one call of match, search or findall,
\* one accessor is called on a result it returned, with a group number n
ResultsOf ==
    IF op = "findall" THEN {result[k] : k \in 1..Len(result)}
    ELSE IF op \in {"match", "search"} /\ result # Absent THEN {result}
    ELSE {}

Access(accessor, m, n, out) ==
    /\ accessed.accessor = "none"
    /\ accessed' = [accessor |-> accessor, n |-> n, of |-> m, out |-> out]
    /\ UNCHANGED <<pattern, expr, pos, anchor_start, anchor_end, nstates, trans, nfa,
                   status, error, op, subject, result, calls>>
    /\ UNCHANGED <<work, sims, cloned>>

AccessGroup == \E m \in ResultsOf, n \in GroupNumbers : Access("group", m, n, MatchResultGroup(m, n))

AccessStart == \E m \in ResultsOf, n \in GroupNumbers : Access("start", m, n, MatchResultStart(m, n))

AccessEnd == \E m \in ResultsOf, n \in GroupNumbers : Access("end", m, n, MatchResultEnd(m, n))

AccessSpans == \E m \in ResultsOf, n \in GroupNumbers : Access("spans", m, n, MatchResultSpans(m, n))

NextAccess ==
    \/ Compile
    \/ \E s \in CallSubjects : Match(s)
    \/ \E s \in CallSubjects : Search(s)
    \/ \E s \in CallSubjects : Findall(s)
    \/ AccessGroup
    \/ AccessStart
    \/ AccessEnd
    \/ AccessSpans

SpecAccess == InitCalls /\ [][NextAccess]_vars

\* Several runs of _match_from_position on one compiled matcher, interleaved:
\* one turn of the for loop is one step, and each run has its own locals
SimSubjects ==
    { Str(<<"a", "b", "c">>), Str(<<"a", "b", "b", "c">>), Str(<<"b", "a", "a">>) }

\* every simulation reads the locals of the first one
SimLocalsShared(k) == sims[1].l

\* the locals current_states, idx and last_accept_idx of simulation k
SimLocals(k) == sims[k].l

Simulating(k, sim) ==
    /\ sims' = [sims EXCEPT ![k] = sim]
    /\ UNCHANGED <<pattern, expr, pos, anchor_start, anchor_end, nstates, trans, nfa,
                   status, error, op, subject, result, calls, accessed, work, cloned>>

\* the call, up to the for loop; amid records that another simulation was
\* in the middle of its loop when this one began
SimBegin(k) ==
    /\ status = "compiled"
    /\ sims[k].phase = "idle"
    /\ \E s \in SimSubjects, start_idx \in 0..MaxStart :
          Simulating(k, [phase |-> "running", s |-> s, start_idx |-> start_idx,
                         i |-> start_idx,
                         l |-> [current_states  |-> EpsilonClosure(Runner.trans,
                                                                   {Runner.nfa.start}),
                                idx             |-> start_idx,
                                last_accept_idx |-> -1],
                         out |-> <<FALSE, -1>>,
                         amid |-> \E j \in Simulators :
                                     sims[j].phase = "running" /\ sims[j].i > sims[j].start_idx])

\* one turn of the for loop, the next states being computed; an empty set
\* of next states leaves the loop
SimTurn(sim, l, next_states) ==
    IF next_states = {}
    THEN [sim EXCEPT !.phase = "left", !.l = [l EXCEPT !.current_states = next_states]]
    ELSE [sim EXCEPT !.i = @ + 1,
                     !.l = [current_states  |-> next_states,
                            idx             |-> sim.i + 1,
                            last_accept_idx |-> IF Runner.nfa.accept \in next_states
                                                THEN sim.i + 1 ELSE l.last_accept_idx]]

SimStep(k) ==
    /\ sims[k].phase = "running"
    /\ sims[k].i < Len(sims[k].s)
    /\ Simulating(k, SimTurn(sims[k], SimLocals(k),
                              GetNextStates(Runner.trans, SimLocals(k).current_states,
                                            sims[k].s[sims[k].i + 1])))

\* the code after the loop: the pair returned
SimEnd(k) ==
    /\ \/ sims[k].phase = "left"
       \/ sims[k].phase = "running" /\ sims[k].i >= Len(sims[k].s)
    /\ Simulating(k, [sims[k] EXCEPT !.phase = "done",
                                      !.out = MatchVerdict(Runner, sims[k].s, SimLocals(k))])

NextSims ==
    \/ Compile
    \/ \E s \in SimSubjects : Match(s)
    \/ \E s \in SimSubjects : Search(s)
    \/ \E s \in SimSubjects : Findall(s)
    \/ \E s \in SimSubjects : Run(s)
    \/ \E k \in Simulators : SimBegin(k)
    \/ \E k \in Simulators : SimStep(k)
    \/ \E k \in Simulators : SimEnd(k)

SpecSims == InitCalls /\ [][NextSims]_vars

\* _epsilon_closure step by step: one turn of its while loop is one step.
\* The patterns: every small expression, the documented examples, and
\* quantifiers applied to quantified groups
NestedExamples ==
    { Star(Star(A)),                                   \* (a*)*
      PlusOf(Opt(A)),                                  \* (a?)+
      Star(Alt(Star(A), Opt(Lit(Ord("b"))))),          \* (a*|b?)*
      PlusOf(PlusOf(Star(A))),                         \* ((a*)+)+
      Rep(Star(A), "n,", 2, None) }                    \* (a*){2,}

InitClosure ==
    \E e \in Exprs \cup ExprExamples \cup NestedExamples :
        InitWith(Show(Pat(FALSE, e, FALSE)), Pat(FALSE, e, FALSE))

\* the sets of states given to _epsilon_closure
Seeds == {X \in SUBSET (1..nstates) : Cardinality(X) <= MaxSeed}

Working(w) ==
    /\ work' = w
    /\ UNCHANGED <<pattern, expr, pos, anchor_start, anchor_end, nstates, trans, nfa,
                   status, error, op, subject, result, calls, accessed, sims, cloned>>

\* stack = list(states); closure = set(states)
ClosureStart(given, states, round) ==
    [phase |-> "running", round |-> round, given |-> given, seed |-> states,
     stack |-> ListOf(states), closure |-> states, pushed |-> ListOf(states)]

BeginClosure ==
    /\ status = "compiled"
    /\ work.phase = "idle"
    /\ \E X \in Seeds : Working(ClosureStart(X, X, 1))

\* what one turn of the while loop leaves, v being the stack and the closure
\* after the for loop
ClosureTurn(v) ==
    [work EXCEPT !.stack = v.stack,
                 !.closure = v.closure,
                 !.pushed = @ \o SubSeq(v.stack, Len(work.stack), Len(v.stack))]

\* while stack: state = stack.pop(), then the for loop
ClosureStep ==
    /\ work.phase = "running"
    /\ work.stack # <<>>
    /\ Len(work.pushed) < MaxPushes
    /\ Working(ClosureTurn(
            ClosureVisit(ListOf(Targets(trans, work.stack[Len(work.stack)], Epsilon)),
                         [stack   |-> SubSeq(work.stack, 1, Len(work.stack) - 1),
                          closure |-> work.closure])))

\* return closure
ClosureEnd ==
    /\ work.phase = "running"
    /\ work.stack = <<>>
    /\ Working([work EXCEPT !.phase = "done"])

\* _epsilon_closure called on the set it has just returned
ClosureAgain ==
    /\ work.phase = "done"
    /\ work.round = 1
    /\ Working(ClosureStart(work.given, work.closure, 2))

NextClosure ==
    \/ Compile
    \/ BeginClosure
    \/ ClosureStep
    \/ ClosureEnd
    \/ ClosureAgain

SpecClosure == InitClosure /\ [][NextClosure]_vars

\* One run of _epsilon_closure on the automata of nested quantifiers and of
\* the smallest quantified expressions; the while loop goes on as long as
\* it can, and the run returns once the loop is left
InitNested ==
    \E e \in NestedExamples \cup ExprsOfSize(2) :
        InitWith(Show(Pat(FALSE, e, FALSE)), Pat(FALSE, e, FALSE))

NextNested ==
    \/ Compile
    \/ BeginClosure
    \/ ClosureStep
    \/ ClosureEnd

SpecClosureFair ==
    InitNested /\ [][NextNested]_vars /\ WF_vars(ClosureStep) /\ WF_vars(ClosureEnd)

\* _clone_nfa called on a fragment of the compiled automaton: two states of
\* it, the second reached from the first, as start and accept
Fragments ==
    UNION {{NFA(q, r) : r \in ReachableFrom(trans, {q})} : q \in 1..nstates} \cup {nfa}

\* the heap after the call, and the fragment and its copy
Cloning(a, st) ==
    /\ nstates' = st.nstates
    /\ trans' = st.trans
    /\ cloned' = [done |-> TRUE, nfa |-> a, copy |-> st.nfa,
                  nstates |-> nstates, trans |-> trans]
    /\ UNCHANGED <<pattern, expr, pos, anchor_start, anchor_end, nfa, status, error,
                   op, subject, result, calls, accessed, work, sims>>

Clone ==
    /\ status = "compiled"
    /\ ~cloned.done
    /\ \E a \in Fragments :
          Cloning(a, CloneNfa([nstates |-> nstates, trans |-> trans, nfa |-> nfa], a))

NextClone ==
    \/ Compile
    \/ Clone

SpecClone == InitClosure /\ [][NextClone]_vars

-----------------------------------------------------------------------------
(* What the claims speak of *)

\* the automaton accepts w: some path from its start to its accept state is
\* labelled w.  A configuration <<q, k>> is a state with k characters read.
ConfigSteps(edges, w, c) ==
    {<<e[3], c[2]>> : e \in {x \in edges : x[1] = c[1] /\ x[2] = Epsilon}}
    \cup (IF c[2] < Len(w)
          THEN {<<e[3], c[2] + 1>> :
                   e \in {x \in edges : /\ x[1] = c[1]
                                        /\ \/ x[2] = DotLabel
                                           \/ x[2] = Literal(w[c[2] + 1])}}
          ELSE {})

RECURSIVE Configs(_, _, _)
Configs(edges, w, seen) ==
    LET more == UNION {ConfigSteps(edges, w, c) : c \in seen} \ seen
    IN  IF more = {} THEN seen ELSE Configs(edges, w, seen \cup more)

Accepts(r, w) == <<r.nfa.accept, Len(w)>> \in Configs(r.trans, w, {<<r.nfa.start, 0>>})

\* the ends j > i of the accepted substrings s[i:j]
AcceptedEnds(r, s, i) == {j \in (i + 1)..Len(s) : Accepts(r, Slice(s, i, j))}

\* the string of k characters c
Power(c, k) == [i \in 1..k |-> c]

\* s is a string of the character c alone
IsPower(c, s) == \A i \in 1..Len(s) : s[i] = c

\* the matcher was called as op on a pattern written from a syntax tree
CalledOnPattern(name) == op = name /\ expr.op = "pattern"

-----------------------------------------------------------------------------
(* C1 *)

\* C1: compiling the empty pattern succeeds, and then match("") succeeds with
\* the empty span (0,0) while match("a") returns the absent result.
C1_EmptyPattern ==
    pattern = <<>> /\ status # "new" =>
        /\ status = "compiled"
        /\ op = "match" /\ subject = <<>> => result = MatchResult(<<>>, 0, 0)
        /\ op = "match" /\ subject = Str(<<"a">>) => result = Absent

-----------------------------------------------------------------------------
(* C2 *)

\* C2: when the language of a pattern without end anchor contains the empty
\* string (a* is one), match("") succeeds with a zero-length match at 0.
C2_EmptyStringMatch ==
    /\ CalledOnPattern("match")
    /\ ~expr.ae
    /\ InLang(expr.e, <<>>)
    /\ subject = <<>>
    => result = MatchResult(<<>>, 0, 0)

-----------------------------------------------------------------------------
(* C3 *)

-----------------------------------------------------------------------------
(* C4 *)

\* the start positions a call tries: match tries 0, search tries 0 when the
\* pattern is anchored at the start and every position otherwise
StartsTried ==
    IF op = "match" \/ anchor_start THEN {0} ELSE 0..Len(subject)

\* C4: without an end anchor, a successful match or search from start index
\* i returns the largest end j > i such that s[i:j] is accepted by the
\* automaton, and the result is absent only if no start position tried has
\* such an end.
C4_LongestMatch ==
    op \in {"match", "search"} /\ ~anchor_end =>
        IF result # Absent
        THEN /\ result.start \in StartsTried
             /\ result.end \in AcceptedEnds(Runner, subject, result.start)
             /\ \A j \in AcceptedEnds(Runner, subject, result.start) : j <= result.end
             /\ result.fullmatch = Slice(subject, result.start, result.end)
        ELSE \A i \in StartsTried : AcceptedEnds(Runner, subject, i) = {}

\* a*, which accepts several ends from one start, has matched all of "aaa"
C4_Witness ==
    /\ op = "match"
    /\ pattern = Str(<<"a", "*">>)
    /\ subject = Str(<<"a", "a", "a">>)
    /\ AcceptedEnds(Runner, subject, 0) = {1, 2, 3}
    /\ result = MatchResult(subject, 0, 3)

-----------------------------------------------------------------------------
(* C5 *)

\* C5: a{2,4} matches at the start of "aaa", and ^a{2,4}$ matches neither
\* "a" nor "aaaaa".
C5_RepeatExamples ==
    /\ /\ op = "match"
       /\ pattern = Str(<<"a", "{", "2", ",", "4", "}">>)
       /\ subject = Power(Ord("a"), 3)
       => result # Absent
    /\ /\ op = "match"
       /\ pattern = Str(<<"^", "a", "{", "2", ",", "4", "}", "$">>)
       /\ subject \in {Power(Ord("a"), 1), Power(Ord("a"), 5)}
       => result = Absent

\* a{2,4} has matched at the start of "aaa": the match is "aa"
C5_Witness ==
    /\ op = "match"
    /\ pattern = Str(<<"a", "{", "2", ",", "4", "}">>)
    /\ subject = Power(Ord("a"), 3)
    /\ result = MatchResult(Power(Ord("a"), 2), 0, 2)

-----------------------------------------------------------------------------
(* C6, C7, C8, C9: the counted quantifiers *)

\* match was called on the anchored pattern ^a{...}$ written in the given form
CalledOnRepeat(form) ==
    /\ CalledOnPattern("match")
    /\ expr.as /\ expr.ae
    /\ expr.e.op = "rep"
    /\ expr.e.form = form

\* the subject is a^k for some k between lo and hi
CountWithin(lo, hi) ==
    /\ IsPower(Ord("a"), subject)
    /\ lo <= Len(subject)
    /\ Len(subject) <= hi

\* C6: ^a{min,max}$ with 1 <= min <= max matches a^k if and only if
\* min <= k <= max: never more than max occurrences, and every count in
\* between.
C6_BoundedRepeat ==
    CalledOnRepeat("n,m") /\ expr.e.min >= 1 =>
        (result # Absent <=> CountWithin(expr.e.min, expr.e.max))

\* C7: ^a{n}$ with n >= 1 matches a^k if and only if k = n.
C7_ExactRepeat ==
    CalledOnRepeat("n") /\ expr.e.min >= 1 =>
        (result # Absent <=> CountWithin(expr.e.min, expr.e.min))

\* C8: ^a{min,}$ with min >= 1 matches a^k if and only if k >= min.
C8_UnboundedRepeat ==
    CalledOnRepeat("n,") /\ expr.e.min >= 1 =>
        (result # Absent <=> CountWithin(expr.e.min, Len(subject)))

\* C9: a counted quantifier with min = 0 accepts zero occurrences of its
\* base: ^a{,m}$, ^a{0,m}$, ^a{0,}$ match the empty string, and ^ba{,2}c$ and
\* ^ba{0,}c$ match "bc".
C9_ZeroMin ==
    /\ /\ \E form \in {",m", "n,m", "n,"} : CalledOnRepeat(form)
       /\ expr.e.min = 0
       /\ subject = <<>>
       => result = MatchResult(<<>>, 0, 0)
    /\ /\ op = "match"
       /\ pattern \in {Str(<<"^", "b", "a", "{", ",", "2", "}", "c", "$">>),
                       Str(<<"^", "b", "a", "{", "0", ",", "}", "c", "$">>)}
       /\ subject = Str(<<"b", "c">>)
       => result = MatchResult(subject, 0, 2)

-----------------------------------------------------------------------------
(* C10 *)

\* the printable-ASCII universe, by its parts: digits, letters, punctuation
\* and the whitespace characters
PrintableAscii ==
    (48..57) \cup (97..122) \cup (65..90)
    \cup (33..47) \cup (58..64) \cup (91..96) \cup (123..126)
    \cup {32, 9, 10, 13, 11, 12}

\* C10: the negated class [^items] matches exactly one character c, if and
\* only if c is in the printable-ASCII universe and not in the listed set
\* (ranges inclusive by code point, shorthand escapes expanded); no character
\* outside the universe is matched.
C10_NegatedClass ==
    CalledOnPattern("match") /\ expr.e.op = "class" /\ expr.e.negate =>
        IF /\ subject # <<>>
           /\ subject[1] \in PrintableAscii
           /\ subject[1] \notin Listed(expr.e.items)
        THEN result = MatchResult(<<subject[1]>>, 0, 1)
        ELSE result = Absent

\* [^a-z] has matched the "A" of "Am", and no more than it
C10_Witness ==
    /\ op = "match"
    /\ pattern = Str(<<"[", "^", "a", "-", "z", "]">>)
    /\ subject = Str(<<"A", "m">>)
    /\ result = MatchResult(Str(<<"A">>), 0, 1)

-----------------------------------------------------------------------------
(* C11 *)

\* C11: the results of findall(s) have pairwise non-overlapping spans and
\* strictly increasing starts: each result starts at or after the end of
\* every earlier one, and after the start of every earlier one.
C11_FindallDisjoint ==
    op = "findall" =>
        /\ \A k \in 1..Len(result) :
              /\ 0 <= result[k].start
              /\ result[k].start <= result[k].end
              /\ result[k].end <= Len(subject)
        /\ \A j \in 1..Len(result) : \A k \in 1..Len(result) :
              j < k => /\ result[k].start >= result[j].end
                       /\ result[k].start > result[j].start

\* a|b has found two adjacent results in "ab", the second starting where the
\* first ends
C11_Witness ==
    /\ op = "findall"
    /\ pattern = Str(<<"a", "|", "b">>)
    /\ subject = Str(<<"a", "b">>)
    /\ result = <<MatchResult(Str(<<"a">>), 0, 1), MatchResult(Str(<<"b">>), 1, 2)>>

-----------------------------------------------------------------------------
(* C12 *)

\* the left-to-right scan: with the cursor at i, a success of
\* _match_from_position ending at e gives a result spanning [i, e), zero-width
\* when e = i, and moves the cursor to e, or to i + 1 when e = i; a failure
\* moves it by one
RECURSIVE ScanFrom(_, _, _)
ScanFrom(r, s, i) ==
    IF i > Len(s) THEN <<>>
    ELSE LET m == MatchFromPosition(r, s, i) IN
         IF m[1]
         THEN <<MatchResult(Slice(s, i, m[2]), i, m[2])>>
              \o ScanFrom(r, s, IF m[2] = i THEN i + 1 ELSE m[2])
         ELSE ScanFrom(r, s, i + 1)

\* C12: findall(s) is the left-to-right scan from 0, zero-width results
\* included.
C12_FindallScan ==
    op = "findall" => result = ScanFrom(Runner, subject, 0)

\* C12, its example alone: a on "banana" gives three results of length 1
\* starting at 1, 3 and 5
C12_Banana ==
    /\ op = "findall"
    /\ pattern = Str(<<"a">>)
    /\ subject = Str(<<"b", "a", "n", "a", "n", "a">>)
    /\ result = <<MatchResult(Str(<<"a">>), 1, 2), MatchResult(Str(<<"a">>), 3, 4),
                  MatchResult(Str(<<"a">>), 5, 6)>>

-----------------------------------------------------------------------------
(* C13 *)

\* [i, j) is a valid match of the pattern in the subject: s[i:j] is in the
\* language of the expression, zero-length spans included, and j is the end
\* of the subject when the pattern ends with $
ValidSpan(i, j) ==
    /\ 0 <= i /\ i <= j /\ j <= Len(subject)
    /\ InLang(expr.e, Slice(subject, i, j))
    /\ expr.ae => j = Len(subject)

\* the starts of the valid matches
ValidStarts ==
    {i \in 0..Len(subject) : \E j \in i..Len(subject) : ValidSpan(i, j)}

\* C13: for a pattern without a leading ^, search(s) returns a valid match
\* with the smallest start among all valid matches, and the absent result
\* only when there is no valid match.
C13_SearchLeftmost ==
    CalledOnPattern("search") /\ ~expr.as =>
        IF ValidStarts = {}
        THEN result = Absent
        ELSE /\ result # Absent
             /\ ValidSpan(result.start, result.end)
             /\ \A i \in ValidStarts : result.start <= i

-----------------------------------------------------------------------------
(* C14 *)

\* C14: run(s) is true if and only if search(s) returns a match result, a
\* zero-length one included.
C14_RunIsSearch ==
    op = "run" => (result <=> RunnerSearch(Runner, subject) # Absent)

-----------------------------------------------------------------------------
(* C15 *)

-----------------------------------------------------------------------------
(* C16 *)

\* C16: compile never succeeds while leaving pattern characters unconsumed:
\* a pattern whose parse stops before its end, as "a)", "a)b" and "a$b", fails
\* with a compile error.
C16_WholePatternRead ==
    /\ status = "compiled" => pos = Len(pattern)
    /\ /\ status # "new"
       /\ pattern \in {Str(<<"a", ")">>), Str(<<"a", ")", "b">>), Str(<<"a", "$", "b">>)}
       => status = "error"

-----------------------------------------------------------------------------
(* C17 *)

\* patterns with a missing closing delimiter, each with the delimiter missed
MissingDelimiter ==
    { <<Str(<<"(", "a">>), Ord(")")>>, <<Str(<<"(", "a", "|", "b">>), Ord(")")>>,
      <<Str(<<"[", "a">>), Ord("]")>>, <<Str(<<"[", "^", "a", "-", "z">>), Ord("]")>>,
      <<Str(<<"[">>), Ord("]")>>,
      <<Str(<<"a", "{", "2">>), Ord("}")>>, <<Str(<<"a", "{", "2", ",">>), Ord("}")>>,
      <<Str(<<"a", "{">>), Ord("}")>>,
      <<Str(<<"a", "{", "x", "}">>), Ord("}")>>,
      <<Str(<<"a", "{", "2", ",", "x", "}">>), Ord("}")>> }

\* patterns that end where a character is required: after a backslash, after
\* '|' and after '('
EndsEarly ==
    { Str(<<"a", "\\">>), Str(<<"\\">>), Str(<<"a", "|">>), Str(<<"(", "a", "|">>),
      Str(<<"(">>) }

\* the failure names the end of the input, or the offending character and
\* its position, and the cursor stands there
AtOffence ==
    \/ error.kind = "end" /\ pos = Len(pattern)
    \/ /\ error.kind = "mismatch"
       /\ pos < Len(pattern)
       /\ error.index = pos
       /\ error.got = pattern[pos + 1]
       /\ error.expected # None

\* C17: a pattern with a missing ')', ']' or '}', or one that ends where a
\* character is required, makes compile raise a failure that carries what
\* was expected (the delimiter missed; nothing in particular where any
\* character would do) and the offending character with its position or the
\* end of input; no matcher is produced and the cursor is not moved past the
\* offending position.
C17_CompileErrors ==
    /\ status = "error" => error.raised /\ nfa = NoNFA /\ op = "none" /\ AtOffence
    /\ \A m \in MissingDelimiter :
          status # "new" /\ pattern = m[1] => status = "error" /\ error.expected = m[2]
    /\ status # "new" /\ pattern \in EndsEarly =>
          status = "error" /\ error.kind = "end" /\ error.expected = None

\* a{x} has failed: '}' was expected, 'x' stands at index 2, and so does the
\* cursor
C17_Witness ==
    /\ status = "error"
    /\ pattern = Str(<<"a", "{", "x", "}">>)
    /\ error = [raised |-> TRUE, kind |-> "mismatch", expected |-> Ord("}"),
                got |-> Ord("x"), index |-> 2]
    /\ pos = 2
    /\ nfa = NoNFA

-----------------------------------------------------------------------------
(* C18 *)

\* patterns with a quantifier that nothing precedes: at the start, right
\* after '(' and right after '|'
BareQuantifiers ==
    { Str(<<"*", "a">>), Str(<<"+", "a">>), Str(<<"?">>), Str(<<"{", "2", "}">>),
      Str(<<"(", "*", "a", ")">>), Str(<<"(", "?", ")">>),
      Str(<<"a", "|", "+">>), Str(<<"a", "|", "{", "2", "}">>) }

\* C18: a quantifier character with no preceding atom makes compile raise
\* the syntax error; "*a" and "a|+" fail.
C18_BareQuantifier ==
    status # "new" /\ pattern \in BareQuantifiers => status = "error"

-----------------------------------------------------------------------------
(* C19 *)

\* m is a match result of the subject: a span within it, with its text
IsMatchOfSubject(m) ==
    /\ m.start \in 0..Len(subject)
    /\ m.end \in m.start..Len(subject)
    /\ m = MatchResult(Slice(subject, m.start, m.end), m.start, m.end)

\* C19: once a pattern has compiled, a call of match, search, findall or run
\* on any string ends without an exception, and its outcome is a match
\* result or the absent result (match, search), a list of match results
\* (findall) or a boolean (run).
C19_CallsReturn ==
    op # "none" =>
        /\ status = "compiled" /\ error = NoError
        /\ op \in {"match", "search"} => result = Absent \/ IsMatchOfSubject(result)
        /\ op = "findall" => \A k \in 1..Len(result) : IsMatchOfSubject(result[k])
        /\ op = "run" => result \in BOOLEAN

\* abc has been searched in a string of one character that the pattern does
\* not hold: the absent result
C19_Witness ==
    /\ op = "search"
    /\ pattern = Str(<<"a", "b", "c">>)
    /\ subject = Str(<<"e-acute">>)
    /\ result = Absent

-----------------------------------------------------------------------------
(* C20 *)

\* the documented pairs of a pattern and a string made of a text the pattern
\* matches and of characters after it
TrailingText ==
    { <<Str(<<"a", "b", "c">>), Str(<<"a", "b", "c", "d">>)>>,
      <<Str(<<"a", "b", "?">>), Str(<<"a", "b", "b">>)>>,
      <<Str(<<"a", "|", "b">>), Str(<<"a", "b">>)>>,
      <<Str(<<"(", "a", "b", ")", "*", "c">>),
        Str(<<"a", "b", "a", "b", "c", "a", "b">>)>> }

\* C20: for an unanchored pattern, run(s) is false when s is a text the
\* pattern matches followed by characters it cannot consume: abc on "abcd",
\* ab? on "abb", a|b on "ab" and (ab)*c on "ababcab" give false.
C20_TrailingText ==
    op = "run" /\ <<pattern, subject>> \in TrailingText => result = FALSE

-----------------------------------------------------------------------------
(* C21 *)

\* C21: every match result of match, search and findall has an empty list
\* of captured groups: group(0), start(0), end(0) return the whole matched
\* text and its span, spans(0) = (start(0), end(0)), and group(n), start(n),
\* end(n) raise an index failure for every n >= 1.
C21_Accessors ==
    accessed.accessor # "none" =>
        /\ accessed.of.groups = <<>>
        /\ accessed.n = 0 =>
              /\ ~accessed.out.raised
              /\ accessed.accessor = "group" =>
                    accessed.out.value = Slice(subject, accessed.of.start, accessed.of.end)
              /\ accessed.accessor = "start" => accessed.out.value = accessed.of.start
              /\ accessed.accessor = "end" => accessed.out.value = accessed.of.end
              /\ accessed.accessor = "spans" =>
                    accessed.out.value = <<accessed.of.start, accessed.of.end>>
        /\ accessed.n >= 1 /\ accessed.accessor \in {"group", "start", "end"} =>
              accessed.out.raised /\ accessed.out.kind = "IndexError"

\* group(1) was called on the second result of a findall and has raised
C21_Witness ==
    /\ op = "findall"
    /\ Len(result) >= 2
    /\ accessed.accessor = "group"
    /\ accessed.n = 1
    /\ accessed.of = result[2]
    /\ accessed.out.raised
    /\ accessed.out.kind = "IndexError"

-----------------------------------------------------------------------------
(* C22 *)

\* the edges that read a character and leave one of the given states
ConsumingFrom(edges, states) == {e \in edges : e[1] \in states /\ e[2] # Epsilon}

\* the states at the two ends of the given edges
EndsOf(edges) == {e[1] : e \in edges} \cup {e[3] : e \in edges}

\* in the automaton of x+ with x one character: the edges that read the first
\* character of a text (the mandatory occurrence of x)
MandatoryOccurrence == ConsumingFrom(trans, EpsilonClosure(trans, {nfa.start}))

\* and the edges that read the character after it (the occurrence in the loop)
LoopedOccurrence ==
    ConsumingFrom(trans, EpsilonClosure(trans, {e[3] : e \in MandatoryOccurrence}))

\* C22: plus(a) is built with fresh-copy semantics: for a pattern x+ with x a
\* literal or the dot, no state of the mandatory first occurrence of x is
\* also a state of the occurrence of x inside the star loop.
C22_PlusFreshCopy ==
    /\ status = "compiled"
    /\ expr.op = "pattern"
    /\ expr.e.op = "plus"
    /\ expr.e.e.op \in {"lit", "dot"}
    => EndsOf(MandatoryOccurrence) \cap EndsOf(LoopedOccurrence) = {}

-----------------------------------------------------------------------------
(* C23 *)

\* the states reached from X by zero or more epsilon edges
RECURSIVE EpsilonReachable(_, _)
EpsilonReachable(edges, X) ==
    LET more == {e[3] : e \in {x \in edges : x[1] \in X /\ x[2] = Epsilon}}
    IN  IF more \subseteq X THEN X ELSE EpsilonReachable(edges, X \cup more)

\* C23: _epsilon_closure is a closure operator on the state sets of a compiled
\* automaton: the set it returns for X contains X, is exactly the set of
\* states reached from X by zero or more epsilon edges, and the closure of
\* that set is the set itself.
C23_ClosureOperator ==
    work.phase = "done" =>
        /\ work.seed \subseteq work.closure
        /\ work.closure = EpsilonReachable(trans, work.seed)
        /\ work.round = 2 =>
              /\ work.seed = EpsilonReachable(trans, work.given)
              /\ work.closure = work.seed

\* the closure of a closure was computed; the closure is larger than the set
\* given, and an edge that reads a character leaves it for a state outside
C23_Witness ==
    /\ work.phase = "done"
    /\ work.round = 2
    /\ Cardinality(work.closure) > Cardinality(work.given) + 1
    /\ \E e \in trans : e[1] \in work.closure /\ e[2] # Epsilon /\ e[3] \notin work.closure

-----------------------------------------------------------------------------
(* C24 *)

\* no state is twice in the sequence
NoRepeat(seq) == \A i, j \in 1..Len(seq) : i # j => seq[i] # seq[j]

\* C24: _epsilon_closure terminates on every compiled automaton, those with
\* cycles of epsilon edges from nested quantifiers included: no state is
\* pushed on the stack twice, and the stack of a run under way ends empty
\* and the run returns.
C24_ClosureTerminates ==
    /\ [](NoRepeat(work.pushed))
    /\ (work.phase = "running") ~> (work.phase = "done" /\ work.stack = <<>>)

\* a run has returned on the automaton of (a*)* or (a?)+ after pushing the
\* states of a cycle of epsilon edges
C24_Witness ==
    /\ work.phase = "done"
    /\ expr.e \in {Star(Star(A)), PlusOf(Opt(A))}
    /\ Len(work.pushed) >= 4
    /\ \E e \in trans : /\ e[2] = Epsilon
                         /\ e[1] \in EpsilonReachable(trans, {e[3]})
                         /\ e[1] \in work.closure \ work.given

-----------------------------------------------------------------------------
(* C25 *)

\* the compiled graph and the anchor flags are what they were
GraphUnchanged == UNCHANGED <<nstates, trans, nfa, anchor_start, anchor_end>>

\* what simulation k returns when it runs alone
Alone(k) ==
    MatchFromPosition(NFARunner(nfa, anchor_start, anchor_end, trans),
                      sims[k].s, sims[k].start_idx)

\* C25: once parse() has returned, no step of the matcher (match, search,
\* findall, run, a turn of a simulation with its closures) changes a state
\* or a transition of the compiled graph or an anchor flag; and of two
\* simulations on the same automaton, interleaved turn by turn, each returns
\* what it returns when run alone.
C25_SharedGraph ==
    /\ [][status = "compiled" => GraphUnchanged]_vars
    /\ [](\A k \in Simulators : sims[k].phase = "done" => sims[k].out = Alone(k))

\* two simulations on different subjects have both returned a match, the
\* second one having begun while the first one was in the middle of its loop
C25_Witness ==
    /\ sims[1].phase = "done"
    /\ sims[2].phase = "done"
    /\ sims[2].amid
    /\ sims[1].s # sims[2].s
    /\ sims[1].out[1]
    /\ sims[2].out[1]
    /\ sims[1].out # sims[2].out

-----------------------------------------------------------------------------
(* C26 *)

\* the states reached from q by any edges, q included
Reach(edges, q) == ReachableFrom(edges, {q})

\* q lies on a cycle of edges
OnCycle(edges, q) == \E e \in edges : e[1] = q /\ q \in Reach(edges, e[3])

\* the k-th smallest state of S
RECURSIVE Nth(_, _)
Nth(S, k) ==
    LET least == CHOOSE x \in S : \A y \in S : x <= y
    IN  IF k = 1 THEN least ELSE Nth(S \ {least}, k - 1)

\* the place of q in S by size
Rank(S, q) == Cardinality({y \in S : y <= q})

\* the fragment given to _clone_nfa: the part of the graph reached from its start
OriginalPart == Reach(cloned.trans, cloned.nfa.start)

\* the copy: the part of the graph reached from the start of the NFA returned
CopyPart == Reach(trans, cloned.copy.start)

\* the copy of state q of the fragment, the copies taken in the order of the
\* originals
Image(q) == Nth(CopyPart, Rank(OriginalPart, q))

\* the edges that leave the states S
EdgesFrom(edges, S) == {e \in edges : e[1] \in S}

\* C26: the NFA that _clone_nfa returns for a fragment is isomorphic to the
\* part of the graph reached from the fragment's start: state for state,
\* with the same labels and edges, start to start and accept to accept,
\* a state on a cycle copied to a state on a cycle. Every state of the copy
\* is new, and the states and transitions that were there before the call
\* are unchanged; the call returns on fragments with cycles too.
C26_CloneIsomorphic ==
    cloned.done =>
        /\ CopyPart \cap (1..cloned.nstates) = {}
        /\ CopyPart \subseteq 1..nstates
        /\ EdgesFrom(trans, 1..cloned.nstates) = cloned.trans
        /\ Cardinality(CopyPart) = Cardinality(OriginalPart)
        /\ cloned.copy.start = Image(cloned.nfa.start)
        /\ cloned.copy.accept = Image(cloned.nfa.accept)
        /\ EdgesFrom(trans, CopyPart)
             = {<<Image(e[1]), e[2], Image(e[3])>> : e \in EdgesFrom(cloned.trans, OriginalPart)}
        /\ \A q \in OriginalPart : OnCycle(cloned.trans, q) <=> OnCycle(trans, Image(q))

\* the fragment of a quantified group under a quantifier was cloned: it has a
\* cycle of epsilon edges, and states of the automaton lie outside it
C26_Witness ==
    /\ cloned.done
    /\ expr.e \in NestedExamples
    /\ \E e \in cloned.trans : /\ e[2] = Epsilon
                                /\ e[1] \in OriginalPart
                                /\ e[1] \in EpsilonReachable(cloned.trans, {e[3]})
    /\ OriginalPart # 1..cloned.nstates
    /\ Cardinality(CopyPart) >= 4

-----------------------------------------------------------------------------
(* C27 *)

\* C27: when the pattern begins with ^, findall(s) returns at most one
\* result, and no result that begins at an index greater than 0.
C27_FindallAnchored ==
    op = "findall" /\ anchor_start =>
        /\ Len(result) <= 1
        /\ \A k \in 1..Len(result) : result[k].start = 0

-----------------------------------------------------------------------------
(* C28 *)

\* the states live once the characters of the subject from index i up to
\* index k are consumed, given every configuration reached from the start
LiveAt(configs, i, k) == {c[1] : c \in {x \in configs : x[2] = k - i}}

\* the live set is empty before the last character is consumed, or the
\* accept state is not live after the last one
Dies(configs, i) ==
    \/ \E k \in i..(Len(subject) - 1) : LiveAt(configs, i, k) = {}
    \/ nfa.accept \notin LiveAt(configs, i, Len(subject))

\* start position i is to be rejected
Rejected(i) ==
    Dies(Configs(trans, Slice(subject, i, Len(subject)), {<<nfa.start, 0>>}), i)

\* C28: when the pattern ends with $, every result of match, search and
\* findall ends at len(s), and no result begins at a start position from
\* which the live state set is empty before the last character of s is
\* consumed or the accept state is not live after the last character.
C28_EndAnchored ==
    anchor_end /\ op \in {"match", "search", "findall"} =>
        \A m \in ResultsOf : /\ m.end = Len(subject)
                             /\ ~Rejected(m.start)

\* findall with a pattern ending in $ has returned one result that begins
\* after index 0 and ends at the end of the subject, the earlier start
\* positions being rejected
C28_Witness ==
    /\ op = "findall"
    /\ anchor_end
    /\ Len(result) = 1
    /\ result[1].start > 0
    /\ result[1].end = Len(subject)
    /\ \A i \in 0..(result[1].start - 1) : Rejected(i)

=============================================================================
